---- MODULE Spec2Model ----
(***************************************************************************)
(* Model of src/mcp_manager_ui/ui/static/js/main.js: the form-state        *)
(* controller of the MCP manager UI.                                       *)
(*                                                                         *)
(* Strings that the code concatenates or searches (element IDs, prefixes)  *)
(* are sequences of tokens: the literal 'server_type' is one token, every  *)
(* element-name literal of the code is one token, and the page's own       *)
(* prefix fragments ("edit-", "-") are tokens.  formPrefix + 'command' is  *)
(* prefix \o <<"command">>.                                                *)
(***************************************************************************)
EXTENDS Integers, Sequences, FiniteSets, TLC

VARIABLES
    elems,      \* the IDs of the elements (other than rows) present in the document
    selects,    \* the <select> elements of the document, by ID, in document order
    value,      \* value[s]: the current value of select s
    display,    \* display[e]: style.display of section container e
    required,   \* required[e]: the required property of input e
    listeners,  \* listeners[s]: the change listeners of select s, each the formPrefix its closure captured
    rows,       \* rows[c]: the child rows of repeatable container c, in document order
    nextNode,   \* the number of row nodes created so far (the next row is node nextNode + 1)
    loaded,     \* TRUE once DOMContentLoaded has been dispatched
    log,        \* the calls made by the DOMContentLoaded handler, in order
    last,       \* history: the last row operation (for "add then immediately remove")
    call,       \* history: the arguments of the last direct call of toggleServerTypeSpecificFields
    threw       \* TRUE once an exception has escaped a function or handler of the script

vars == <<elems, selects, value, display, required, listeners, rows, nextNode, loaded, log, last, call, threw>>

(***************************************************************************)
(* Bounds                                                                  *)
(***************************************************************************)
MaxForms == 2       \* forms on one page
MaxRows == 3        \* rows created during one page lifetime (SpecRows)
MaxPageRows == 1    \* rows created during one page lifetime (Spec)
MaxAbsent == 1      \* elements of the ID contract that the page's markup leaves out

(***************************************************************************)
(* String literals of the code                                             *)
(***************************************************************************)
ServerTypeLit == "server_type"
StdioContainerLit == "stdio-fields-container"
HttpContainerLit == "http-fields-container"
CommandLit == "command"
UrlLit == "url"
ArgsContainerLit == "args-list-container"
EnvVarsContainerLit == "env-vars-list-container"
FormWrapperLit == "form-wrapper"

ElementLits == {ServerTypeLit, StdioContainerLit, HttpContainerLit, CommandLit, UrlLit,
                ArgsContainerLit, EnvVarsContainerLit, FormWrapperLit}

\* The recognized values of the discriminant, and values that are none of them.
Variants == {"stdio", "sse", "streamable_http"}
Unrecognized == {"", "http"}
ServerTypes == Variants \cup Unrecognized

\* The prefixes a page may use for its forms.
PrefixUniverse == { <<>>, <<"edit-">>, <<"server_type", "-">>, <<"-", "server_type">> }

Null == <<"#null">>

\* formPrefix + 'name'
Concat(formPrefix, name) == formPrefix \o <<name>>

\* document.getElementById(id) over the elements els
getElementById(els, id) == IF id \in els THEN id ELSE Null

\* An element is shown unless its style.display is 'none'.
Visible(d) == d # "none"

(***************************************************************************)
(* toggleServerTypeSpecificFields (main.js 13-42).  st is the part of the  *)
(* document it reads and writes: [display, required].                      *)
(***************************************************************************)
SetDisplay(st, el, d) == IF el # Null THEN [st EXCEPT !.display[el] = d] ELSE st
\* Mutant: the required flag is flipped instead of assigned.
SetRequired_Flip(st, el, b) ==
    IF el # Null THEN [st EXCEPT !.required[el] = ~@] ELSE st

SetRequired(st, el, b) == IF el # Null THEN [st EXCEPT !.required[el] = b] ELSE st

\* Mutant: the reset phase clears the required flags but hides no section.
ResetPhase_NoHide(st, stdioFieldsContainer, httpFieldsContainer, commandInput, urlInput) ==
    SetRequired(SetRequired(st, commandInput, FALSE), urlInput, FALSE)

\* lines 24-28: hide both sections, make both inputs optional
ResetPhase(st, stdioFieldsContainer, httpFieldsContainer, commandInput, urlInput) ==
    SetRequired(
        SetRequired(
            SetDisplay(
                SetDisplay(st, stdioFieldsContainer, "none"),
                httpFieldsContainer, "none"),
            commandInput, FALSE),
        urlInput, FALSE)

\* Mutant: a type that is not recognized falls back to the stdio section.
ShowPhase_DefaultStdio(st, serverType, stdioFieldsContainer, httpFieldsContainer, commandInput, urlInput) ==
    IF (serverType = "sse" \/ serverType = "streamable_http") /\ httpFieldsContainer # Null
    THEN SetRequired(SetDisplay(st, httpFieldsContainer, "block"), urlInput, TRUE)
    ELSE IF stdioFieldsContainer # Null
    THEN SetRequired(SetDisplay(st, stdioFieldsContainer, "block"), commandInput, TRUE)
    ELSE st

\* Mutant: the input of the type is made required whether or not the section
\* container of the type exists.
ShowPhase_InputRegardless(st, serverType, stdioFieldsContainer, httpFieldsContainer, commandInput, urlInput) ==
    IF serverType = "stdio"
    THEN SetRequired(SetDisplay(st, stdioFieldsContainer, "block"), commandInput, TRUE)
    ELSE IF serverType = "sse" \/ serverType = "streamable_http"
    THEN SetRequired(SetDisplay(st, httpFieldsContainer, "block"), urlInput, TRUE)
    ELSE st

\* lines 30-41: show the section of the type and make its input required
ShowPhase(st, serverType, stdioFieldsContainer, httpFieldsContainer, commandInput, urlInput) ==
    IF serverType = "stdio" /\ stdioFieldsContainer # Null
    THEN SetRequired(SetDisplay(st, stdioFieldsContainer, "block"), commandInput, TRUE)
    ELSE IF (serverType = "sse" \/ serverType = "streamable_http") /\ httpFieldsContainer # Null
    THEN SetRequired(SetDisplay(st, httpFieldsContainer, "block"), urlInput, TRUE)
    ELSE st

toggleServerTypeSpecificFields(els, st, serverType, formPrefix) ==
    LET stdioFieldsContainer == getElementById(els, Concat(formPrefix, StdioContainerLit))
        httpFieldsContainer == getElementById(els, Concat(formPrefix, HttpContainerLit))
        commandInput == getElementById(els, Concat(formPrefix, CommandLit))
        urlInput == getElementById(els, Concat(formPrefix, UrlLit))
    IN  ShowPhase(
            ResetPhase(st, stdioFieldsContainer, httpFieldsContainer, commandInput, urlInput),
            serverType, stdioFieldsContainer, httpFieldsContainer, commandInput, urlInput)

(***************************************************************************)
(* Rows of the repeatable containers (main.js 48-113).  A row is a node    *)
(* with the inputs of its template; the removal control of row n is the    *)
(* element [tag |-> "button", node |-> n].                                 *)
(***************************************************************************)
El(tag, n) == [tag |-> tag, node |-> n]
NullEl == El("#null", 0)

\* lines 55-67: the row of addArgumentField, one input named arg_item[]
ArgumentRow(n) == [node |-> n, inputs |-> << [name |-> "arg_item[]", value |-> ""] >>]

\* Mutant: the second input of the env-pair row carries the name of the first.
EnvVarRow_TwoKeys(n) == [node |-> n, inputs |-> << [name |-> "env_key[]", value |-> ""],
                                                   [name |-> "env_key[]", value |-> ""] >>]

\* lines 82-97: the row of addEnvVarField, inputs env_key[] and env_value[]
EnvVarRow(n) == [node |-> n, inputs |-> << [name |-> "env_key[]", value |-> ""],
                                           [name |-> "env_value[]", value |-> ""] >>]

\* Mutant: the new row is inserted before the first child.
appendChild_Prepend(rs, container, newFieldRow) ==
    [rs EXCEPT ![container] = <<newFieldRow>> \o @]

\* container.appendChild(newFieldRow)
appendChild(rs, container, newFieldRow) == [rs EXCEPT ![container] = Append(@, newFieldRow)]

\* The nodes of the rows that are in the document.
RowNodes(rs) == UNION { { rs[c][i].node : i \in DOMAIN rs[c] } : c \in DOMAIN rs }

\* The parent of an element: the button and the inputs of a row sit in that row,
\* every other element modelled here has no ancestor of interest.
parentNode(el) ==
    IF el.tag \in {"button", "input"} THEN El("row", el.node) ELSE NullEl

\* element.closest('.dynamic-field-row'): the element itself or its nearest
\* ancestor with the class.
RECURSIVE closest(_)
closest(el) ==
    IF el = NullEl THEN NullEl
    ELSE IF el.tag = "row" THEN el
    ELSE closest(parentNode(el))

\* Mutant: the first child of the row's parent is removed.
removeRow_FirstChild(rs, fieldRow) ==
    [c \in DOMAIN rs |->
        IF \E i \in 1..Len(rs[c]) : rs[c][i].node = fieldRow.node THEN Tail(rs[c]) ELSE rs[c]]

\* Mutant: the parent of the row is emptied.
removeRow_ClearParent(rs, fieldRow) ==
    [c \in DOMAIN rs |->
        IF \E i \in 1..Len(rs[c]) : rs[c][i].node = fieldRow.node THEN <<>> ELSE rs[c]]

\* fieldRow.remove(): detach the row node from its parent
removeRow(rs, fieldRow) ==
    [c \in DOMAIN rs |-> SelectSeq(rs[c], LAMBDA r : r.node # fieldRow.node)]

\* lines 105-113
removeDynamicField(rs, buttonElement) ==
    LET fieldRow == closest(buttonElement)
    IN  IF fieldRow # NullEl THEN removeRow(rs, fieldRow) ELSE rs

(***************************************************************************)
(* The DOMContentLoaded handler (main.js 116-145).                         *)
(***************************************************************************)
\* 'select[id$="server_type"]': the ID ends with the literal
MatchesSelector(id) == Len(id) > 0 /\ id[Len(id)] = ServerTypeLit

querySelectorAll(sel) == SelectSeq(sel, MatchesSelector)

\* id.replace('server_type', ''): String.prototype.replace with a string
\* pattern removes the first occurrence only.
RECURSIVE replaceServerType(_)
replaceServerType(id) ==
    IF id = <<>> THEN <<>>
    ELSE IF Head(id) = ServerTypeLit THEN Tail(id)
    ELSE <<Head(id)>> \o replaceServerType(Tail(id))

LogEntry(fn, arg) == [fn |-> fn, arg |-> arg]

\* Mutant: the labels of the wrapper are refreshed before the sections of the
\* form are toggled.
wireSelect_RefreshFirst(els, vals, acc, selectElement) ==
    LET formPrefix == replaceServerType(selectElement)
        st1 == toggleServerTypeSpecificFields(els, acc.st, vals[selectElement], formPrefix)
        wrapper == getElementById(els, Concat(formPrefix, FormWrapperLit))
        log0 == IF wrapper # Null
                THEN Append(acc.log, LogEntry("M.updateTextFields", wrapper))
                ELSE acc.log
    IN  [st |-> st1,
         listeners |-> [acc.listeners EXCEPT ![selectElement] = Append(@, formPrefix)],
         log |-> Append(Append(log0,
                    LogEntry("toggleServerTypeSpecificFields", formPrefix)),
                    LogEntry("addEventListener", selectElement))]

\* lines 126-144: the body of the forEach for one select; acc is
\* [st, listeners, log]
wireSelect(els, vals, acc, selectElement) ==
    LET formPrefix == replaceServerType(selectElement)
        st1 == toggleServerTypeSpecificFields(els, acc.st, vals[selectElement], formPrefix)
        wrapper == getElementById(els, Concat(formPrefix, FormWrapperLit))
        log1 == Append(Append(acc.log,
                    LogEntry("toggleServerTypeSpecificFields", formPrefix)),
                    LogEntry("addEventListener", selectElement))
    IN  [st |-> st1,
         listeners |-> [acc.listeners EXCEPT ![selectElement] = Append(@, formPrefix)],
         log |-> IF wrapper # Null
                 THEN Append(log1, LogEntry("M.updateTextFields", wrapper))
                 ELSE log1]

RECURSIVE forEachSelect(_, _, _, _)
forEachSelect(els, vals, acc, list) ==
    IF list = <<>> THEN acc
    ELSE forEachSelect(els, vals, wireSelect(els, vals, acc, Head(list)), Tail(list))

\* The change listener of line 133-136 with its captured formPrefix, run for
\* every listener of the select in the order of attachment.
RECURSIVE runListeners(_, _, _, _)
runListeners(els, st, thisValue, ls) ==
    IF ls = <<>> THEN st
    ELSE runListeners(els, toggleServerTypeSpecificFields(els, st, thisValue, Head(ls)),
                      thisValue, Tail(ls))

(***************************************************************************)
(* The page: the markup the server renders before the script runs.         *)
(***************************************************************************)
Range(f) == { f[i] : i \in DOMAIN f }

\* The forms of a page, in document order: at most MaxForms distinct prefixes.
PrefixOrder == << <<>>, <<"edit-">>, <<"server_type", "-">>, <<"-", "server_type">> >>

FormLists ==
    { SelectSeq(PrefixOrder, LAMBDA p : p \in F) :
        F \in { G \in SUBSET PrefixUniverse : Cardinality(G) <= MaxForms } }

\* The IDs the element-ID contract names for the form with a prefix.
FormIds(prefix) == { Concat(prefix, lit) : lit \in ElementLits }
PageIds(forms) == UNION { FormIds(forms[i]) : i \in DOMAIN forms }

IsKind(id, lit) == Len(id) > 0 /\ id[Len(id)] = lit
OfKinds(ids, lits) == { id \in ids : \E lit \in lits : IsKind(id, lit) }

Sections(ids) == OfKinds(ids, {StdioContainerLit, HttpContainerLit})
Inputs(ids) == OfKinds(ids, {CommandLit, UrlLit})
Containers(ids) == OfKinds(ids, {ArgsContainerLit, EnvVarsContainerLit})

NoRows(ids) == [c \in Containers(ids) |-> <<>>]
\* History of the row operations: the last call of addArgumentField,
\* addEnvVarField or removeDynamicField, unless something else happened since.
\* op: "add", "add-missing" (an addition that found no container), "remove";
\* fn, formPrefix: the function that added a row and its argument;
\* el: the element given to removeDynamicField;
\* node: the row added or removed (0: none); before: the rows before the call;
\* undo: the call removed, by its own removal control, the row that the call
\* just before it had added; base: the rows before that addition.
NoLast == [op |-> "other", fn |-> "none", formPrefix |-> <<>>, el |-> NullEl, node |-> 0, before |-> <<>>, undo |-> FALSE, base |-> <<>>]
NotAdded(before) ==
    [op |-> "add-missing", fn |-> "none", formPrefix |-> <<>>, el |-> NullEl, node |-> 0, before |-> before, undo |-> FALSE, base |-> <<>>]
Added(fn, formPrefix, n, before) ==
    [op |-> "add", fn |-> fn, formPrefix |-> formPrefix, el |-> NullEl, node |-> n, before |-> before, undo |-> FALSE, base |-> <<>>]
Removed(el, n, before, undo, base) ==
    [op |-> "remove", fn |-> "none", formPrefix |-> <<>>, el |-> el, node |-> n, before |-> before, undo |-> undo, base |-> base]
\* A change event on a select came last.
Changed == [NoLast EXCEPT !.op = "change"]
\* History of the direct calls of toggleServerTypeSpecificFields: the arguments
\* of the last call, and whether the call before it had the same arguments.
NoCall == [fn |-> "none", serverType |-> "", formPrefix |-> <<>>, repeated |-> FALSE]

\* The page as rendered: every form of the page comes from one template, so the
\* sections share their inline display and the inputs their required attribute;
\* at most MaxAbsent elements of the ID contract are left out of the markup.
Init ==
    \E forms \in FormLists :
    \E absent \in SUBSET PageIds(forms) :
    \E sectionMarkup \in {"", "none"}, requiredMarkup \in BOOLEAN :
        /\ Cardinality(absent) <= MaxAbsent
        /\ elems = (PageIds(forms) \ absent) \ OfKinds(PageIds(forms), {ServerTypeLit})
        /\ selects = SelectSeq([i \in DOMAIN forms |-> Concat(forms[i], ServerTypeLit)],
                               LAMBDA id : id \notin absent)
        /\ value \in [Range(selects) -> ServerTypes]
        /\ display = [e \in Sections(elems) |-> sectionMarkup]
        /\ required = [e \in Inputs(elems) |-> requiredMarkup]
        /\ listeners = [s \in Range(selects) |-> <<>>]
        /\ rows = NoRows(elems)
        /\ nextNode = 0
        /\ loaded = FALSE
        /\ log = <<>>
        /\ last = NoLast
        /\ call = NoCall
        /\ threw = FALSE

(***************************************************************************)
(* Actions                                                                 *)
(***************************************************************************)
\* main.js 116-145: the browser dispatches DOMContentLoaded once, when the
\* document has been parsed; the user acts on the page after that.
DOMContentLoaded ==
    /\ ~loaded
    /\ LET acc == forEachSelect(elems, value,
                      [st |-> [display |-> display, required |-> required],
                       listeners |-> listeners,
                       log |-> << LogEntry("M.AutoInit", Null) >>],
                      querySelectorAll(selects))
       IN  /\ display' = acc.st.display
           /\ required' = acc.st.required
           /\ listeners' = acc.listeners
           /\ log' = acc.log
    /\ loaded' = TRUE
    /\ last' = NoLast
    /\ UNCHANGED <<elems, selects, value, rows, nextNode, call, threw>>

\* Mutant: the change listener rebuilds the form and loses its rows.
ChangeEvent_DropRows(s, v) ==
    /\ loaded
    /\ s \in Range(selects)
    /\ v # value[s]
    /\ value' = [value EXCEPT ![s] = v]
    /\ LET st == runListeners(elems, [display |-> display, required |-> required], v, listeners[s])
       IN  /\ display' = st.display
           /\ required' = st.required
    /\ rows' = NoRows(elems)
    /\ last' = Changed
    /\ UNCHANGED <<elems, selects, listeners, nextNode, loaded, log, call, threw>>

\* The user picks another option of a select: the browser updates the value and
\* then dispatches 'change' to the listeners of lines 133-136.
ChangeEvent(s, v) ==
    /\ loaded
    /\ s \in Range(selects)
    /\ v # value[s]
    /\ value' = [value EXCEPT ![s] = v]
    /\ LET st == runListeners(elems, [display |-> display, required |-> required], v, listeners[s])
       IN  /\ display' = st.display
           /\ required' = st.required
    /\ last' = Changed
    /\ UNCHANGED <<elems, selects, listeners, rows, nextNode, loaded, log, call, threw>>

\* Mutant: addArgumentField without the check of lines 51-54: appendChild on
\* the null container throws a TypeError.
AddArgumentField_NoGuard(formPrefix) ==
    /\ loaded
    /\ LET container == getElementById(elems, Concat(formPrefix, ArgsContainerLit))
       IN  IF container = Null
           THEN /\ last' = NotAdded(rows)
                /\ threw' = TRUE
                /\ UNCHANGED <<rows, nextNode>>
           ELSE /\ rows' = appendChild(rows, container, ArgumentRow(nextNode + 1))
                /\ nextNode' = nextNode + 1
                /\ last' = Added("addArgumentField", formPrefix, nextNode + 1, rows)
                /\ UNCHANGED threw
    /\ UNCHANGED <<elems, selects, value, display, required, listeners, loaded, log, call>>

\* main.js 48-69
AddArgumentField(formPrefix) ==
    /\ loaded
    /\ LET container == getElementById(elems, Concat(formPrefix, ArgsContainerLit))
       IN  IF container = Null
           THEN /\ last' = NotAdded(rows)
                /\ UNCHANGED <<rows, nextNode>>
           ELSE /\ rows' = appendChild(rows, container, ArgumentRow(nextNode + 1))
                /\ nextNode' = nextNode + 1
                /\ last' = Added("addArgumentField", formPrefix, nextNode + 1, rows)
    /\ UNCHANGED <<elems, selects, value, display, required, listeners, loaded, log, call, threw>>

\* Mutant: addEnvVarField looks up the container of the arguments.
AddEnvVarField_ArgsContainer(formPrefix) ==
    /\ loaded
    /\ LET container == getElementById(elems, Concat(formPrefix, ArgsContainerLit))
       IN  IF container = Null
           THEN /\ last' = NotAdded(rows)
                /\ UNCHANGED <<rows, nextNode>>
           ELSE /\ rows' = appendChild(rows, container, EnvVarRow(nextNode + 1))
                /\ nextNode' = nextNode + 1
                /\ last' = Added("addEnvVarField", formPrefix, nextNode + 1, rows)
    /\ UNCHANGED <<elems, selects, value, display, required, listeners, loaded, log, call, threw>>

\* main.js 75-99
AddEnvVarField(formPrefix) ==
    /\ loaded
    /\ LET container == getElementById(elems, Concat(formPrefix, EnvVarsContainerLit))
       IN  IF container = Null
           THEN /\ last' = NotAdded(rows)
                /\ UNCHANGED <<rows, nextNode>>
           ELSE /\ rows' = appendChild(rows, container, EnvVarRow(nextNode + 1))
                /\ nextNode' = nextNode + 1
                /\ last' = Added("addEnvVarField", formPrefix, nextNode + 1, rows)
    /\ UNCHANGED <<elems, selects, value, display, required, listeners, loaded, log, call, threw>>

\* The elements that can be given to removeDynamicField: the removal control, an
\* input or the row itself of a row of the document, or an element that is in
\* no row.
ClickableElements ==
    { El(tag, n) : tag \in {"button", "input", "row"}, n \in RowNodes(rows) }
        \cup { El("outside", 0) }

\* Mutant: removeDynamicField without the check of line 108: remove() on the
\* null result of closest throws a TypeError.
RemoveDynamicField_NoCheck(buttonElement) ==
    /\ loaded
    /\ buttonElement \in ClickableElements
    /\ rows' = removeDynamicField(rows, buttonElement)
    /\ threw' = (threw \/ closest(buttonElement) = NullEl)
    /\ LET undo == last.op = "add" /\ buttonElement = El("button", last.node)
       IN  last' = Removed(buttonElement, closest(buttonElement).node, rows,
                           undo, IF undo THEN last.before ELSE <<>>)
    /\ UNCHANGED <<elems, selects, value, display, required, listeners, nextNode, loaded, log, call>>

\* main.js 105-113
RemoveDynamicField(buttonElement) ==
    /\ loaded
    /\ buttonElement \in ClickableElements
    /\ rows' = removeDynamicField(rows, buttonElement)
    /\ LET undo == last.op = "add" /\ buttonElement = El("button", last.node)
       IN  last' = Removed(buttonElement, closest(buttonElement).node, rows,
                           undo, IF undo THEN last.before ELSE <<>>)
    /\ UNCHANGED <<elems, selects, value, display, required, listeners, nextNode, loaded, log, call, threw>>

\* The user types into input i of the row with node n (main.js 60, 87, 90:
\* free-text inputs).
TypeText(c, k, i) ==
    /\ loaded
    /\ c \in DOMAIN rows
    /\ k \in 1..Len(rows[c])
    /\ i \in 1..Len(rows[c][k].inputs)
    /\ rows[c][k].inputs[i].value = ""
    /\ rows' = [rows EXCEPT ![c][k].inputs[i].value = "x"]
    /\ last' = NoLast
    /\ UNCHANGED <<elems, selects, value, display, required, listeners, nextNode, loaded, log, call, threw>>

Next ==
    \/ DOMContentLoaded
    \/ \E s \in Range(selects), v \in ServerTypes : ChangeEvent(s, v)
    \/ \E formPrefix \in PrefixUniverse : nextNode < MaxPageRows /\ AddArgumentField(formPrefix)
    \/ \E formPrefix \in PrefixUniverse : nextNode < MaxPageRows /\ AddEnvVarField(formPrefix)
    \/ \E el \in ClickableElements : RemoveDynamicField(el)
    \/ \E c \in DOMAIN rows, k \in 1..MaxPageRows, i \in 1..2 : TypeText(c, k, i)

Spec == Init /\ [][Next]_vars

(***************************************************************************)
(* SpecRows: the repeatable rows of one page with two complete forms, of   *)
(* which at most MaxAbsent containers are left out of the markup.          *)
(***************************************************************************)
RowsPage == << <<>>, <<"edit-">> >>

InitRows ==
    \E absent \in SUBSET Containers(PageIds(RowsPage)) :
        /\ Cardinality(absent) <= MaxAbsent
        /\ elems = (PageIds(RowsPage) \ absent) \ OfKinds(PageIds(RowsPage), {ServerTypeLit})
        /\ selects = [i \in DOMAIN RowsPage |-> Concat(RowsPage[i], ServerTypeLit)]
        /\ value = [s \in Range(selects) |-> "stdio"]
        /\ display = [e \in Sections(elems) |-> "none"]
        /\ required = [e \in Inputs(elems) |-> FALSE]
        /\ listeners = [s \in Range(selects) |-> <<>>]
        /\ rows = NoRows(elems)
        /\ nextNode = 0
        /\ loaded = FALSE
        /\ log = <<>>
        /\ last = NoLast
        /\ call = NoCall
        /\ threw = FALSE

NextRows ==
    \/ DOMContentLoaded
    \/ \E formPrefix \in PrefixUniverse : nextNode < MaxRows /\ AddArgumentField(formPrefix)
    \/ \E formPrefix \in PrefixUniverse : nextNode < MaxRows /\ AddEnvVarField(formPrefix)
    \/ \E el \in ClickableElements : RemoveDynamicField(el)
    \/ \E c \in DOMAIN rows, k \in 1..MaxRows, i \in 1..2 : TypeText(c, k, i)

SpecRows == InitRows /\ [][NextRows]_vars

(***************************************************************************)
(* SpecToggle: toggleServerTypeSpecificFields as a function of its         *)
(* arguments and of the document: two forms, any subset of their sections  *)
(* and inputs present, any display and required state before the call.     *)
(***************************************************************************)
ToggleLits == {StdioContainerLit, HttpContainerLit, CommandLit, UrlLit}
ToggleIds(prefixes) == { Concat(p, lit) : p \in prefixes, lit \in ToggleLits }

TogglePage == { <<>>, <<"edit-">> }

InitToggle ==
        /\ elems \in SUBSET ToggleIds(TogglePage)
        /\ display \in [Sections(elems) -> {"", "none"}]      \* 'block' comes from the calls
        /\ required \in [Inputs(elems) -> BOOLEAN]
        /\ selects = <<>>
        /\ value = <<>>
        /\ listeners = <<>>
        /\ rows = <<>>
        /\ nextNode = 0
        /\ loaded = FALSE
        /\ log = <<>>
        /\ last = NoLast
        /\ call = NoCall
        /\ threw = FALSE

\* A call toggleServerTypeSpecificFields(serverType, formPrefix)
CallToggle(serverType, formPrefix) ==
    /\ LET st == toggleServerTypeSpecificFields(elems,
                     [display |-> display, required |-> required], serverType, formPrefix)
       IN  /\ display' = st.display
           /\ required' = st.required
    /\ call' = [fn |-> "toggleServerTypeSpecificFields",
                serverType |-> serverType, formPrefix |-> formPrefix,
                repeated |-> call.fn # "none" /\ call.serverType = serverType
                                /\ call.formPrefix = formPrefix]
    /\ UNCHANGED <<elems, selects, value, listeners, rows, nextNode, loaded, log, last, threw>>

NextToggle ==
    \E serverType \in ServerTypes, formPrefix \in PrefixUniverse :
        CallToggle(serverType, formPrefix)

SpecToggle == InitToggle /\ [][NextToggle]_vars

(***************************************************************************)
(* Properties of toggleServerTypeSpecificFields (SpecToggle)               *)
(***************************************************************************)
Present(id) == id \in elems
Shown(id) == Present(id) /\ Visible(display[id])
Required(id) == Present(id) /\ required[id]

StdioOf(prefix) == Concat(prefix, StdioContainerLit)
HttpOf(prefix) == Concat(prefix, HttpContainerLit)
CommandOf(prefix) == Concat(prefix, CommandLit)
UrlOf(prefix) == Concat(prefix, UrlLit)

AllFourPresent(prefix) ==
    /\ Present(StdioOf(prefix)) /\ Present(HttpOf(prefix))
    /\ Present(CommandOf(prefix)) /\ Present(UrlOf(prefix))

Called == call.fn = "toggleServerTypeSpecificFields"

\* C1: after toggleServerTypeSpecificFields(variant, prefix) with a recognized
\* variant and all four elements present, exactly the section of the variant is
\* visible (stdio for 'stdio', http for 'sse' and 'streamable_http'), the other
\* is hidden, command is required iff the stdio section is visible and url iff
\* the http section is, whatever the state before the call.
C1_MatchingSectionShown ==
    (Called /\ call.serverType \in Variants /\ AllFourPresent(call.formPrefix)) =>
        LET p == call.formPrefix
        IN  /\ Shown(StdioOf(p)) <=> (call.serverType = "stdio")
            /\ Shown(HttpOf(p)) <=> (call.serverType \in {"sse", "streamable_http"})
            /\ ~(Shown(StdioOf(p)) /\ Shown(HttpOf(p)))
            /\ required[CommandOf(p)] <=> Shown(StdioOf(p))
            /\ required[UrlOf(p)] <=> Shown(HttpOf(p))

\* A call with 'streamable_http' on a complete form has shown the http section.
C1_Witness ==
    /\ Called /\ call.serverType = "streamable_http" /\ AllFourPresent(call.formPrefix)
    /\ display[HttpOf(call.formPrefix)] = "block" /\ required[UrlOf(call.formPrefix)]
    /\ display[StdioOf(call.formPrefix)] = "none" /\ ~required[CommandOf(call.formPrefix)]

\* C2: after toggleServerTypeSpecificFields(variant, prefix) with a variant that
\* is none of 'stdio', 'sse', 'streamable_http' (the empty string included),
\* both sections of the prefix are hidden and neither input is required,
\* whatever the state before the call.
C2_UnrecognizedHidesBoth ==
    (Called /\ call.serverType \notin Variants) =>
        LET p == call.formPrefix
        IN  /\ ~Shown(StdioOf(p)) /\ ~Shown(HttpOf(p))
            /\ ~Required(CommandOf(p)) /\ ~Required(UrlOf(p))

\* A call with the empty string on a complete form.
C2_Witness ==
    /\ Called /\ call.serverType = "" /\ AllFourPresent(call.formPrefix)
    /\ display[StdioOf(call.formPrefix)] = "none" /\ display[HttpOf(call.formPrefix)] = "none"

\* C5: toggleServerTypeSpecificFields is idempotent: a call with the arguments
\* of the call just before it changes no display and no required state, for
\* every variant, prefix, state and subset of present elements.
C5_Idempotent ==
    [][call'.repeated => (display' = display /\ required' = required)]_vars

\* A second call in a row with the same arguments, on a form that lacks elements.
C5_Witness ==
    /\ Called /\ call.repeated /\ call.serverType = "stdio"
    /\ Present(StdioOf(call.formPrefix)) /\ ~Present(CommandOf(call.formPrefix))
    /\ Present(UrlOf(call.formPrefix))

(***************************************************************************)
(* Properties of the page (Spec).  The form instance of a discovered       *)
(* control is named by the control's ID without its 'server_type' suffix;  *)
(* its elements are the IDs of the element-ID contract under that prefix.  *)
(***************************************************************************)
Discovered == Range(querySelectorAll(selects))
FormPrefixOf(s) == SubSeq(s, 1, Len(s) - 1)

\* C3: once the DOMContentLoaded handler has run, at most one of the stdio
\* section and the http section of a form instance is visible, in every state
\* reached by change events, row additions and row removals.
C3_AtMostOneSectionVisible ==
    loaded =>
        \A s \in Discovered :
            ~(Shown(StdioOf(FormPrefixOf(s))) /\ Shown(HttpOf(FormPrefixOf(s))))

\* C4: once the DOMContentLoaded handler has run, in every reachable state of
\* a form instance the command input is required iff the stdio section is
\* shown, and the url input is required iff the http section is shown.
C4_RequiredMirrorsVisibility ==
    loaded =>
        \A s \in Discovered :
            LET p == FormPrefixOf(s)
            IN  /\ Present(CommandOf(p)) => (required[CommandOf(p)] <=> Shown(StdioOf(p)))
                /\ Present(UrlOf(p)) => (required[UrlOf(p)] <=> Shown(HttpOf(p)))

\* The display and required state of the sections and inputs of a form.
FormState(prefix, d, r) ==
    << [e \in Sections(FormIds(prefix)) \cap elems |-> d[e]],
       [e \in Inputs(FormIds(prefix)) \cap elems |-> r[e]] >>

\* C6: a change event of one discovered control changes the display or
\* required state of no element of the form instance of another discovered
\* control, for every pair of distinct discovered controls of a page and every
\* interleaving of their change events.
C6_CrossInstanceIsolation ==
    [][\A s, t \in Discovered :
          (s # t /\ value'[s] # value[s]) =>
              FormState(FormPrefixOf(t), display', required')
                  = FormState(FormPrefixOf(t), display, required)]_vars

\* Supporting lemmas.  The three properties above hold on every page whose
\* control IDs contain 'server_type' only as their suffix (Spec), and a direct
\* call for one prefix leaves the elements of every other prefix alone
\* (SpecToggle).
OrdinaryIds == \A s \in Discovered : replaceServerType(s) = FormPrefixOf(s)

OrdinaryIds_AtMostOneSectionVisible == OrdinaryIds => C3_AtMostOneSectionVisible

OrdinaryIds_RequiredMirrorsVisibility == OrdinaryIds => C4_RequiredMirrorsVisibility

OrdinaryIds_CrossInstanceIsolation ==
    [][OrdinaryIds =>
          \A s, t \in Discovered :
              (s # t /\ value'[s] # value[s]) =>
                  FormState(FormPrefixOf(t), display', required')
                      = FormState(FormPrefixOf(t), display, required)]_vars

DirectCall_CrossInstanceIsolation ==
    [][\A p \in PrefixUniverse :
          p # call'.formPrefix =>
              FormState(p, display', required') = FormState(p, display, required)]_vars

(***************************************************************************)
(* Properties of the repeatable rows (SpecRows)                            *)
(***************************************************************************)
WithoutIndex(seq, k) == SubSeq(seq, 1, k - 1) \o SubSeq(seq, k + 1, Len(seq))

\* C7: adding a row (argument or env-pair) and then immediately calling
\* removeDynamicField on the removal control of that row restores the rows of
\* every container as they were before the addition: same rows, same order,
\* same values.
C7_AddThenRemoveRestores ==
    (last.op = "remove" /\ last.undo) => rows = last.base

\* The new row of a container that already held a filled row has been removed.
C7_Witness ==
    /\ last.op = "remove" /\ last.undo
    /\ \E c \in DOMAIN rows :
        /\ Len(last.before[c]) = 2
        /\ last.before[c][2].node = last.node
        /\ last.before[c][1].inputs[1].value = "x"

\* C8: removeDynamicField on the removal control of the k-th of N rows of a
\* container removes exactly that row: the container holds the other N-1 rows
\* in their order and with their values, and no other container changes.
C8_RemovesExactlyThatRow ==
    (last.op = "remove" /\ last.node # 0) =>
        \E c \in DOMAIN last.before :
            \E k \in 1..Len(last.before[c]) :
                /\ last.before[c][k].node = last.node
                /\ rows = [last.before EXCEPT ![c] = WithoutIndex(@, k)]

\* The second of three rows has been removed, the other two being filled.
C8_Witness ==
    /\ last.op = "remove"
    /\ \E c \in DOMAIN rows :
        /\ Len(last.before[c]) = 3
        /\ last.before[c][2].node = last.node
        /\ last.before[c][1].inputs[1].value = "x"
        /\ last.before[c][3].inputs[1].value = "x"

\* The rows of every container are in the order of their insertion, and the
\* row just added is the last child of its container, the rows before it and
\* the other containers being as they were.
RowsInInsertionOrder ==
    /\ \A c \in DOMAIN rows :
        \A i, j \in 1..Len(rows[c]) : i < j => rows[c][i].node < rows[c][j].node
    /\ last.op = "add" =>
        \E c \in DOMAIN rows :
            /\ Len(rows[c]) > 0
            /\ rows[c][Len(rows[c])].node = last.node
            /\ \A i \in 1..Len(rows[c]) : rows[c][i].node = last.node => i = Len(rows[c])
            /\ rows = [last.before EXCEPT ![c] = Append(@, rows[c][Len(rows[c])])]

\* C9: a new row is the last child of its container and leaves the earlier
\* rows, their order and their values as they were, so the rows of a container
\* are always in the order of their insertion; and an addition to a container
\* that exists adds its row whatever the number of rows the container holds.
C9_AppendedInInsertionOrder ==
    /\ []RowsInInsertionOrder
    /\ [][\A p \in PrefixUniverse :
            /\ (AddArgumentField(p) /\ Present(Concat(p, ArgsContainerLit))) =>
                  Len(rows'[Concat(p, ArgsContainerLit)])
                      = Len(rows[Concat(p, ArgsContainerLit)]) + 1
            /\ (AddEnvVarField(p) /\ Present(Concat(p, EnvVarsContainerLit))) =>
                  Len(rows'[Concat(p, EnvVarsContainerLit)])
                      = Len(rows[Concat(p, EnvVarsContainerLit)]) + 1]_vars

\* A row has been added below a filled row, after a removal.
C9_Witness ==
    /\ last.op = "add" /\ nextNode = MaxRows
    /\ \E c \in DOMAIN rows :
        /\ Len(rows[c]) = 2
        /\ rows[c][2].node = last.node
        /\ rows[c][1].inputs[1].value = "x"

\* The inputs with a name in a sequence of rows, in document order, each with
\* the node of its row.
RECURSIVE InputsNamed(_, _)
InputsNamed(rowSeq, name) ==
    IF rowSeq = <<>> THEN <<>>
    ELSE LET r == Head(rowSeq)
             own == SelectSeq(r.inputs, LAMBDA in : in.name = name)
         IN  [i \in 1..Len(own) |-> [node |-> r.node, value |-> own[i].value]]
                 \o InputsNamed(Tail(rowSeq), name)

\* C10: in every state reached by env-pair additions and row removals, the
\* env_key inputs and the env_value inputs of a container are equally many,
\* and the N-th key and the N-th value are inputs of the same row.
C10_EnvKeysValuesPaired ==
    \A c \in DOMAIN rows :
        LET keys == InputsNamed(rows[c], "env_key[]")
            vals == InputsNamed(rows[c], "env_value[]")
        IN  /\ Len(keys) = Len(vals)
            /\ \A n \in 1..Len(keys) : keys[n].node = vals[n].node

\* Two env-pair rows are left after the removal of a third.
C10_Witness ==
    /\ last.op = "remove" /\ last.node # 0
    /\ \E c \in DOMAIN rows :
        /\ Len(InputsNamed(rows[c], "env_key[]")) = 2
        /\ Len(InputsNamed(last.before[c], "env_value[]")) = 3

(***************************************************************************)
(* Properties of missing elements                                          *)
(***************************************************************************)
\* The document: everything but the histories.
Document == <<elems, selects, value, display, required, listeners, rows, nextNode, loaded, log>>

\* C11: when the container of the prefix does not exist, addArgumentField and
\* addEnvVarField raise no error and leave the whole document unchanged: no row
\* is created anywhere, no display and no required state changes.
C11_MissingContainerNoOp ==
    [][last'.op = "add-missing" => (~threw' /\ UNCHANGED Document)]_vars

\* An addition has found no container, on a page that holds a filled row.
C11_Witness ==
    /\ last.op = "add-missing" /\ ~threw
    /\ \E c \in DOMAIN rows : Len(rows[c]) > 0 /\ rows[c][1].inputs[1].value = "x"

\* The row that encloses an element, nearest first: the row itself, or the row
\* of a removal control or of an input; 0 for an element that is in no row.
EnclosingRowNode(el) == IF el.tag \in {"row", "button", "input"} THEN el.node ELSE 0

RowsWithout(rs, n) == [c \in DOMAIN rs |-> SelectSeq(rs[c], LAMBDA r : r.node # n)]

\* C12: removeDynamicField removes the nearest enclosing row of the element it
\* is given and nothing else; when the element has no enclosing row the call
\* raises no error and leaves the document unchanged.
C12_RemovesEnclosingRowOnly ==
    [][last'.op = "remove" =>
          /\ ~threw'
          /\ rows' = RowsWithout(rows, EnclosingRowNode(last'.el))
          /\ EnclosingRowNode(last'.el) = 0 => rows' = rows
          /\ UNCHANGED <<elems, selects, value, display, required, listeners, nextNode,
                         loaded, log>>]_vars

\* removeDynamicField has been given an element that is in no row, on a page
\* that holds rows.
C12_Witness ==
    /\ last.op = "remove" /\ last.el = El("outside", 0) /\ ~threw
    /\ \E c \in DOMAIN rows : Len(rows[c]) = 2

\* C13 as stated: for every subset of the four elements present, after a call
\* with 'stdio' the command input, if present, is required, and after a call
\* with 'sse' or 'streamable_http' the url input, if present, is required, also
\* when the section container of the type is absent.
C13_InputRequiredIfPresent ==
    Called =>
        LET p == call.formPrefix
        IN  /\ (call.serverType = "stdio" /\ Present(CommandOf(p))) => required[CommandOf(p)]
            /\ (call.serverType \in {"sse", "streamable_http"} /\ Present(UrlOf(p)))
                   => required[UrlOf(p)]

\* C13 (amended): for every subset of the four elements present, after a call
\* with 'stdio' the command input, if present, is required iff the stdio
\* container is present, and after a call with 'sse' or 'streamable_http' the
\* url input, if present, is required iff the http container is present; when
\* the section container of the type is absent the input is left not required.
C13_InputRequiredIfSectionPresent ==
    Called =>
        LET p == call.formPrefix
        IN  /\ (call.serverType = "stdio" /\ Present(CommandOf(p))) =>
                   (required[CommandOf(p)] <=> Present(StdioOf(p)))
            /\ (call.serverType \in {"sse", "streamable_http"} /\ Present(UrlOf(p))) =>
                   (required[UrlOf(p)] <=> Present(HttpOf(p)))

\* A call with 'stdio' on a form that has the command input but no stdio
\* container has left the input not required.
C13_Witness ==
    /\ Called /\ call.serverType = "stdio"
    /\ Present(CommandOf(call.formPrefix)) /\ ~Present(StdioOf(call.formPrefix))
    /\ ~required[CommandOf(call.formPrefix)]

\* The prefixes the DOMContentLoaded handler derived for a control: one for each
\* listener it attached (the listener captures formPrefix).
DerivedPrefixes(s) == Range(listeners[s])

\* C14: once the DOMContentLoaded handler has run, the prefix derived for every
\* discovered control is the control's ID without its trailing 'server_type',
\* so that prefix + 'server_type' is the ID, also for IDs that contain
\* 'server_type' more than once; and no two distinct discovered controls have
\* derived the same prefix.
C14_PrefixIsIdWithoutSuffix ==
    loaded =>
        /\ \A s \in Discovered :
              /\ DerivedPrefixes(s) # {}
              /\ \A p \in DerivedPrefixes(s) : Concat(p, ServerTypeLit) = s
        /\ \A s, t \in Discovered :
              s # t => DerivedPrefixes(s) \cap DerivedPrefixes(t) = {}

\* Supporting lemma: on pages whose control IDs contain 'server_type' only as
\* their suffix the derivation is the one C14 describes.
OrdinaryIds_PrefixIsIdWithoutSuffix == OrdinaryIds => C14_PrefixIsIdWithoutSuffix

\* The display and required state of the form with a prefix that the value v of
\* its control determines: the section of the type of v is shown and the other
\* hidden, and an input is required exactly when its section is shown.
DeterminedBy(prefix, v) ==
    LET sectionOf(e) == IF IsKind(e, StdioContainerLit) \/ IsKind(e, CommandLit)
                        THEN StdioOf(prefix) ELSE HttpOf(prefix)
        matches(e) == IF sectionOf(e) = StdioOf(prefix)
                      THEN v = "stdio"
                      ELSE v \in {"sse", "streamable_http"}
    IN  << [e \in Sections(FormIds(prefix)) \cap elems |->
               IF matches(e) THEN "block" ELSE "none"],
           [e \in Inputs(FormIds(prefix)) \cap elems |->
               matches(e) /\ Present(sectionOf(e))] >>

\* C15: after the page load and after every sequence of change events, the
\* display and required state of the form instance of every discovered control
\* is the state determined by the current value of the control alone, whatever
\* the earlier values were.
C15_StateDeterminedByCurrentValue ==
    loaded =>
        \A s \in Discovered :
            FormState(FormPrefixOf(s), display, required)
                = DeterminedBy(FormPrefixOf(s), value[s])

\* Supporting lemma: C15 holds on pages whose control IDs contain 'server_type'
\* only as their suffix.
OrdinaryIds_StateDeterminedByCurrentValue ==
    OrdinaryIds => C15_StateDeterminedByCurrentValue

\* C16: when the DOMContentLoaded handler finishes, for any number of forms
\* including none, the form instance of every discovered control is in the state
\* of the control's load-time value and the control has exactly one change
\* listener, whichever sections, inputs or wrappers are missing.
C16_EveryInstanceWired ==
    [][(~loaded /\ loaded') =>
          \A s \in Discovered :
              /\ Len(listeners'[s]) = 1
              /\ FormState(FormPrefixOf(s), display', required')
                     = DeterminedBy(FormPrefixOf(s), value[s])]_vars

\* Supporting lemmas: every discovered control has exactly one listener on
\* every page, and C16 holds on pages whose control IDs contain 'server_type'
\* only as their suffix.
EveryControlOneListener ==
    loaded => \A s \in Discovered : Len(listeners[s]) = 1

OrdinaryIds_EveryInstanceWired ==
    [][(OrdinaryIds /\ ~loaded /\ loaded') =>
          \A s \in Discovered :
              /\ Len(listeners'[s]) = 1
              /\ FormState(FormPrefixOf(s), display', required')
                     = DeterminedBy(FormPrefixOf(s), value[s])]_vars

LogIndexes(fn) == { i \in DOMAIN log : log[i].fn = fn }

C18_ToggleAndRowsIndependent ==
    [][/\ (loaded' # loaded \/ value' # value) => rows' = rows
       /\ last'.op \in {"add", "add-missing", "remove"} =>
              (display' = display /\ required' = required)]_vars

\* A row was added to the stdio section of a form, a value typed into it, and
\* the section has been hidden by a change event since: the row is still there.
C18_Witness ==
    /\ loaded /\ last.op = "change"
    /\ \E s \in Discovered :
          /\ value[s] = "sse"
          /\ Present(StdioOf(FormPrefixOf(s))) /\ ~Shown(StdioOf(FormPrefixOf(s)))
          /\ Present(HttpOf(FormPrefixOf(s))) /\ Shown(HttpOf(FormPrefixOf(s)))
          /\ \E c \in DOMAIN rows :
                /\ c = Concat(FormPrefixOf(s), ArgsContainerLit)
                /\ Len(rows[c]) = 1
                /\ rows[c][1].inputs[1].value = "x"

\* The container an addition aims at.
TargetContainer(fn, formPrefix) ==
    Concat(formPrefix, IF fn = "addArgumentField" THEN ArgsContainerLit ELSE EnvVarsContainerLit)

\* C19: an addition that finds its container appends exactly one row to it:
\* addArgumentField(prefix) to prefix + 'args-list-container',
\* addEnvVarField(prefix) to prefix + 'env-vars-list-container'; the other
\* container of the form and the containers of every other form keep their
\* rows, whatever additions on the forms of the page came before.
C19_AdditionTouchesOnlyItsContainer ==
    [][last'.op = "add" =>
          LET c == TargetContainer(last'.fn, last'.formPrefix)
          IN  /\ c \in DOMAIN rows
              /\ Len(rows'[c]) = Len(rows[c]) + 1
              /\ SubSeq(rows'[c], 1, Len(rows[c])) = rows[c]
              /\ \A d \in DOMAIN rows \ {c} : rows'[d] = rows[d]]_vars

\* addEnvVarField('edit-') has just added a row while the containers of the
\* arguments of both forms hold rows of earlier additions.
C19_Witness ==
    /\ last.op = "add" /\ last.fn = "addEnvVarField" /\ last.formPrefix = <<"edit-">>
    /\ { Concat(<<"edit-">>, EnvVarsContainerLit), Concat(<<"edit-">>, ArgsContainerLit),
         Concat(<<>>, ArgsContainerLit) } \subseteq DOMAIN rows
    /\ Len(rows[Concat(<<"edit-">>, EnvVarsContainerLit)]) = 1
    /\ Len(rows[Concat(<<"edit-">>, ArgsContainerLit)]) = 1
    /\ Len(rows[Concat(<<>>, ArgsContainerLit)]) = 1

====
